---- MODULE Spec2Model ----
(***************************************************************************)
(* Model of caasp-bare-metal/deployer/deploy_testbed.py: one run of main() *)
(* for one test name.  The script is single threaded, so the run is one    *)
(* process whose position is pc; the Bare Metal Manager (BMM), the power   *)
(* controllers, the DHCP event feed, the syslog scanner and the SSH probe  *)
(* are the environment, and every value they return is chosen with \E.     *)
(* Every gateway call may raise APIError (_api_get, line 177-178).         *)
(***************************************************************************)
EXTENDS Integers, Sequences, FiniteSets, TLC

\* ---------------------------------------------------------------- bounds
\* Number of master/worker hosts of the fleet (master_count + worker_count).
NumNodes == 2
\* Network addresses the DHCP feed can report are 1..MaxIP.
MaxIP == 2
\* max_failing_nodes given to deploy_nodes ranges over 0..MaxTolerance.
MaxTolerance == 1
\* Number of most recent scan/probe calls kept in the history reachlog.
MaxLog == 4

\* ------------------------------------------------------------- constants
AdminId == 0
NodeIds == 1..NumNodes
ServerIds == {AdminId} \cup NodeIds
IPs == 1..MaxIP
\* "no address": entries.get(macaddr, None) / KeyError
NoIp == 0
\* non-empty error excerpts of the syslog scan; "" is "no error"
Excerpts == {"e1", "e2"}
\* letter cases in which the BMM can report a hardware address
Cases == {"lc", "uc"}

VARIABLES
    args,               \* parse_args(): the flags of this invocation
    max_failing_nodes,  \* argument of deploy_nodes / wait_dhcp_acks
    mac_case,           \* letter case of s['macaddr1'] in the BMM's server list
    pc,                 \* next statement of main() and its callees
    ret,                \* where power_off_nodes returns to
    idx,                \* position of the running "for ... in servers" loop
    cmds,               \* per host: gateway commands issued, in order
    admin_host_ipaddr,  \* main's / deploy_admin_node's admin address
    entries,            \* wait_dhcp_acks' local: the feed of the last poll
    available_hosts,    \* wait_dhcp_acks' set of (server, ipaddr)
    broken,             \* hosts logged "BROKEN HOST ... not powering up"
    reachlog,           \* last scan_syslog_logs / probe_ssh_port calls
    available_hosts2,   \* generate_environment_json's inventory records
    inventory,          \* what create_environment_json was handed
    syslogged,          \* hosts whose syslog was fetched and written
    released,           \* release_servers was called
    hw_locked,          \* number of servers the BMM lists for the test name
    pxe_conf,           \* per host: the boot configuration uploaded last
    arm_failed,         \* deploy_nodes: nodes whose netboot call raised
    ack_fresh,          \* the admin's ACK was logged since its power on
    scanned,            \* hosts scan_syslog_logs was called for
    autoyast_from,      \* address the autoyast profile was fetched from
    error               \* the exception that ended the run, if any

vars == <<args, max_failing_nodes, mac_case, pc, ret, idx, cmds,
          admin_host_ipaddr, entries, available_hosts, broken, reachlog,
          available_hosts2, inventory, syslogged, released, hw_locked,
          pxe_conf, arm_failed, ack_fresh, scanned, autoyast_from, error>>

\* --------------------------------------------------------------- helpers
NoError == [kind |-> "none", excerpt |-> "", cnt |-> 0]
APIError == [kind |-> "APIError", excerpt |-> "", cnt |-> 0]
AssertionError == [kind |-> "AssertionError", excerpt |-> "", cnt |-> 0]
SyslogError(e) == [kind |-> "syslog", excerpt |-> e, cnt |-> 0]
NotPoweringUp(n) == [kind |-> "not_powering_up", excerpt |-> "", cnt |-> n]
\* line 269: Exception("Only {} servers are locked")
OnlyLocked(n) == [kind |-> "only_locked", excerpt |-> "", cnt |-> n]
\* [0] of an empty server list
IndexError == [kind |-> "IndexError", excerpt |-> "", cnt |-> 0]
\* an exception of fetch_and_write_syslog_logs, line 393-399
SyslogFetchError == [kind |-> "fetch_syslog", excerpt |-> "", cnt |-> 0]

\* The invocations of the script that are modelled: one mode flag each,
\* --admin together with --wipe-admin, and --release together with every
\* other flag.
Flags(r, w, a, p, d) ==
    [release |-> r, wipe_admin |-> w, admin |-> a, poweroff |-> p,
     deploy_nodes |-> d]
Invocations ==
    { Flags(TRUE, FALSE, FALSE, FALSE, FALSE),
      Flags(TRUE, TRUE, TRUE, TRUE, TRUE),
      Flags(FALSE, FALSE, TRUE, FALSE, FALSE),
      Flags(FALSE, TRUE, TRUE, FALSE, FALSE),
      Flags(FALSE, FALSE, FALSE, TRUE, FALSE),
      Flags(FALSE, FALSE, FALSE, FALSE, TRUE),
      Flags(FALSE, FALSE, FALSE, FALSE, FALSE) }

\* str.lower() on a hardware address <<id, case>>
lower(macaddr) == <<macaddr[1], "lc">>

\* s['macaddr1'] of server s as the BMM lists it
eth0_macaddr(s) == <<s, mac_case>>

\* line 260: num_servers = 1 + master_count + worker_count
num_servers == 1 + NumNodes

\* The servers the BMM can lock for the test name, in the order it lists
\* them; it never lists more than the run asks for.
bmm_pool == [i \in 1..num_servers |-> i - 1]

\* fetch_servers_list, line 273-282: the list built from the servers the
\* BMM answered with; the first server is the admin
serverlist == SubSeq(bmm_pool, 1, hw_locked)

\* mutant: the whole list whatever is asked for
fetch_servers_list_All(want_admin, want_nodes) == serverlist

\* fetch_servers_list, line 277-282: serverlist, serverlist[:1] or
\* serverlist[1:]
fetch_servers_list(want_admin, want_nodes) ==
    IF want_admin
    THEN IF want_nodes THEN serverlist
         ELSE IF Len(serverlist) = 0 THEN << >>
         ELSE SubSeq(serverlist, 1, 1)
    ELSE SubSeq(serverlist, 2, Len(serverlist))

\* admin_node = fetch_servers_list(want_admin=True, want_nodes=False)[0]
\* of a list that is not empty
AdminNode == bmm_pool[1]
servers == fetch_servers_list(FALSE, TRUE)

\* The DHCP feeds fetch_dhcp_logs can return, restricted to the hosts S the
\* caller looks up: a dict keyed by lower-case hardware address; NoIp stands
\* for an absent key.
Feeds(S) == [{<<s, "lc">> : s \in S} -> IPs \cup {NoIp}]

\* entries[key] with KeyError / entries.get(key, None) as NoIp
Lookup(feed, key) == IF key \in DOMAIN feed THEN feed[key] ELSE NoIp

\* The command history of a host: a command repeated immediately is
\* recorded once.
Issue(s, c) ==
    IF Len(cmds[s]) > 0 /\ cmds[s][Len(cmds[s])] = c
    THEN cmds
    ELSE [cmds EXCEPT ![s] = Append(@, c)]

Raise(e) == pc' = "error" /\ error' = e

\* Boot configurations: wipe_partition_tables_pxecfg, caasp_admin_pxecfg
\* and caasp_node_pxecfg_tpl with the admin_host_ipaddr it was formatted
\* with (line 534-539); NoConf is "nothing uploaded".
NoConf == <<"none", NoIp>>
WipeConf == <<"wipe", NoIp>>
AdminConf == <<"admin", NoIp>>
caasp_node_pxecfg(ipaddr) == <<"node", ipaddr>>
PxeConfs == {NoConf, WipeConf, AdminConf} \cup
            {caasp_node_pxecfg(ip) : ip \in IPs \cup {NoIp}}

TypeOK ==
    /\ args \in Invocations
    /\ max_failing_nodes \in 0..MaxTolerance
    /\ mac_case \in Cases
    /\ idx \in 1..(NumNodes + 1)
    /\ admin_host_ipaddr \in IPs \cup {NoIp}
    /\ available_hosts \subseteq (NodeIds \X IPs)
    /\ broken \subseteq NodeIds
    /\ syslogged \subseteq (ServerIds \X IPs)
    /\ released \in BOOLEAN
    /\ hw_locked \in 0..num_servers
    /\ pxe_conf \in [ServerIds -> PxeConfs]
    /\ arm_failed \subseteq NodeIds
    /\ ack_fresh \in BOOLEAN
    /\ scanned \subseteq ServerIds
    /\ autoyast_from \in IPs \cup {NoIp}

Init ==
    /\ args \in Invocations
    /\ max_failing_nodes \in 0..MaxTolerance
    /\ mac_case \in Cases
    /\ pc = "main"
    /\ ret = "none"
    /\ idx = 1
    /\ cmds = [s \in ServerIds |-> <<>>]
    /\ admin_host_ipaddr = NoIp
    /\ entries = << >>
    /\ available_hosts = {}
    /\ broken = {}
    /\ reachlog = <<>>
    /\ available_hosts2 = {}
    /\ inventory = {}
    /\ syslogged = {}
    /\ released = FALSE
    /\ hw_locked \in 0..num_servers
    /\ pxe_conf = [s \in ServerIds |-> NoConf]
    /\ arm_failed = {}
    /\ ack_fresh = FALSE
    /\ scanned = {}
    /\ autoyast_from = NoIp
    /\ error = NoError

\* ------------------------------------------------------------------ main
\* main, line 765-798: the branch taken once the nodes are powered off
ModeEntry ==
    IF args.admin THEN "da_fetch"
    ELSE IF args.deploy_nodes THEN "mn_fetch"
    ELSE "done"

\* main, line 762-763: power_off_nodes runs for --admin and --poweroff
AfterWipe == IF args.admin \/ args.poweroff THEN "pon_fetch" ELSE ModeEntry

\* mutant: deploy_nodes starts at the arm loop, its boot configuration loop
\* never runs
AfterPowerOffNodes_NoPxe == IF ret = "nodes" THEN "dn_arm" ELSE ModeEntry

\* power_off_nodes returns to its caller: main line 763 or main line 781
AfterPowerOffNodes == IF ret = "nodes" THEN "dn_fetch" ELSE ModeEntry

\* mutant: main never takes the --release branch
ReleaseMode_Never == FALSE

\* main, line 751: if args.release
ReleaseMode == args.release

\* main, line 751-753: --release
Main_Release ==
    /\ pc = "main" /\ ReleaseMode
    /\ \E ok \in BOOLEAN :
         IF ok
         THEN /\ released' = TRUE /\ hw_locked' = 0
              /\ pc' = "done" /\ error' = error
         ELSE /\ released' = released /\ hw_locked' = hw_locked
              /\ Raise(APIError)
    /\ UNCHANGED <<args, max_failing_nodes, mac_case, ret, idx, cmds,
                   admin_host_ipaddr, entries, available_hosts, broken,
                   reachlog, available_hosts2, inventory, syslogged,
                   autoyast_from, pxe_conf, arm_failed, ack_fresh, scanned>>

\* main, line 755-763: handle_iso picks the boot directory, then the run
\* goes to wipe_admin_node, power_off_nodes or the mode's branch
Main_HandleIso ==
    /\ pc = "main" /\ ~ReleaseMode
    /\ \E ok \in BOOLEAN :
         IF ok
         THEN /\ pc' = IF args.wipe_admin THEN "wa_fetch" ELSE AfterWipe
              /\ ret' = IF ~args.wipe_admin /\ AfterWipe = "pon_fetch"
                        THEN "main" ELSE ret
              /\ error' = error
         ELSE Raise(APIError) /\ ret' = ret
    /\ UNCHANGED <<args, max_failing_nodes, mac_case, idx, cmds,
                   admin_host_ipaddr, entries, available_hosts, broken,
                   reachlog, available_hosts2, inventory, syslogged,
                   autoyast_from, released, hw_locked, pxe_conf, arm_failed,
                   ack_fresh, scanned>>

\* One gateway command c for the admin host at position at; an APIError is
\* not caught and ends the run.
AdminCommand(at, c, next) ==
    /\ pc = at
    /\ cmds' = Issue(AdminNode, c)
    /\ \E ok \in BOOLEAN :
         IF ok THEN pc' = next /\ error' = error ELSE Raise(APIError)

\* write_pxe_file, line 370-371: the content cnf is the host's boot
\* configuration once upload_pxe_conf has returned
Uploaded(s, cnf) ==
    IF pc' = "error" THEN pxe_conf ELSE [pxe_conf EXCEPT ![s] = cnf]

\* fetch_servers_list, line 261-270, called at position at by a caller
\* that goes on at next: the BMM lists the servers locked for the test
\* name; with none listed it is asked to lock num_servers and what it
\* locks is taken as it comes; fewer than num_servers listed is an
\* exception.  A caller that takes [0] of an empty list (want_admin) ends
\* with IndexError.
FetchServersList(at, next, want_admin) ==
    /\ pc = at
    /\ \/ /\ hw_locked = 0
          /\ \E n \in 0..num_servers :
               /\ hw_locked' = n
               /\ IF want_admin /\ n = 0
                  THEN Raise(IndexError)
                  ELSE pc' = next /\ error' = error
       \/ /\ hw_locked > 0 /\ hw_locked < num_servers
          /\ Raise(OnlyLocked(hw_locked))
          /\ hw_locked' = hw_locked
       \/ /\ hw_locked >= num_servers
          /\ hw_locked' = hw_locked
          /\ pc' = next /\ error' = error
       \/ Raise(APIError) /\ hw_locked' = hw_locked

\* ------------------------------------------------------- wipe_admin_node
\* line 375-376
WA_Fetch ==
    /\ FetchServersList("wa_fetch", "wa_pxe", TRUE)
    /\ UNCHANGED <<args, max_failing_nodes, mac_case, ret, idx, cmds,
                   admin_host_ipaddr, entries, available_hosts, broken,
                   reachlog, available_hosts2, inventory, syslogged,
                   autoyast_from, released, pxe_conf, arm_failed, ack_fresh,
                   scanned>>
WA_WritePxe ==
    /\ AdminCommand("wa_pxe", "upload_pxe_conf", "wa_off")
    /\ pxe_conf' = Uploaded(AdminNode, WipeConf)
    /\ UNCHANGED <<args, max_failing_nodes, mac_case, ret, idx,
                   admin_host_ipaddr, entries, available_hosts, broken,
                   reachlog, available_hosts2, inventory, syslogged,
                   autoyast_from, released, hw_locked, arm_failed, ack_fresh,
                   scanned>>

WA_PowerOff ==
    /\ AdminCommand("wa_off", "power_off", "wa_arm")
    /\ UNCHANGED <<args, max_failing_nodes, mac_case, ret, idx,
                   admin_host_ipaddr, entries, available_hosts, broken,
                   reachlog, available_hosts2, inventory, syslogged,
                   autoyast_from, released, hw_locked, pxe_conf, arm_failed,
                   ack_fresh, scanned>>

WA_Arm ==
    /\ AdminCommand("wa_arm", "set_one_time_network_boot", "wa_on")
    /\ UNCHANGED <<args, max_failing_nodes, mac_case, ret, idx,
                   admin_host_ipaddr, entries, available_hosts, broken,
                   reachlog, available_hosts2, inventory, syslogged,
                   autoyast_from, released, hw_locked, pxe_conf, arm_failed,
                   ack_fresh, scanned>>

WA_PowerOn ==
    /\ AdminCommand("wa_on", "power_on", AfterWipe)
    /\ ret' = IF pc' = "pon_fetch" THEN "main" ELSE ret
    /\ UNCHANGED <<args, max_failing_nodes, mac_case, idx, admin_host_ipaddr,
                   entries, available_hosts, broken, reachlog,
                   available_hosts2, inventory, syslogged, autoyast_from,
                   released, hw_locked, pxe_conf, arm_failed, ack_fresh,
                   scanned>>

\* ------------------------------------------------------- power_off_nodes
\* The loop counter after one more iteration over servers, and whether the
\* loop is over.
LastIteration == idx >= Len(servers)
NextIdx == IF LastIteration THEN 1 ELSE idx + 1

\* line 457: the nodes; with no node in the list both loops are empty
PON_Fetch ==
    /\ FetchServersList("pon_fetch",
                        IF hw_locked' <= 1 THEN AfterPowerOffNodes
                        ELSE "pon_off",
                        FALSE)
    /\ ret' = IF pc' \in {"pon_off", "error"} THEN ret ELSE "none"
    /\ UNCHANGED <<args, max_failing_nodes, mac_case, idx, cmds,
                   admin_host_ipaddr, entries, available_hosts, broken,
                   reachlog, available_hosts2, inventory, syslogged,
                   autoyast_from, released, pxe_conf, arm_failed, ack_fresh,
                   scanned>>

\* line 459-461: power_off for every node
PON_PowerOff ==
    /\ pc = "pon_off"
    /\ cmds' = Issue(servers[idx], "power_off")
    /\ \/ /\ idx' = NextIdx
          /\ pc' = IF LastIteration THEN "pon_check" ELSE pc
          /\ error' = error
       \/ Raise(APIError) /\ idx' = 1
    /\ UNCHANGED <<args, max_failing_nodes, mac_case, ret, admin_host_ipaddr,
                   entries, available_hosts, broken, reachlog,
                   available_hosts2, inventory, syslogged, autoyast_from,
                   released, hw_locked, pxe_conf, arm_failed, ack_fresh,
                   scanned>>

\* line 464-468: a node that still reads powered on is powered off again
PON_Recheck ==
    /\ pc = "pon_check"
    /\ \E power \in {"on", "off", "raise"}, ok \in BOOLEAN :
         /\ cmds' = IF power = "on"
                    THEN Issue(servers[idx], "power_off") ELSE cmds
         /\ IF power = "raise" \/ (power = "on" /\ ~ok)
            THEN Raise(APIError) /\ idx' = 1 /\ ret' = ret
            ELSE /\ idx' = NextIdx
                 /\ pc' = IF LastIteration THEN AfterPowerOffNodes ELSE pc
                 /\ ret' = IF LastIteration THEN "none" ELSE ret
                 /\ error' = error
    /\ UNCHANGED <<args, max_failing_nodes, mac_case, admin_host_ipaddr,
                   entries, available_hosts, broken, reachlog,
                   available_hosts2, inventory, syslogged, autoyast_from,
                   released, hw_locked, pxe_conf, arm_failed, ack_fresh,
                   scanned>>

\* ----------------------------------------------------- deploy_admin_node
\* line 404-405
DA_Fetch ==
    /\ FetchServersList("da_fetch", "da_pxe", TRUE)
    /\ UNCHANGED <<args, max_failing_nodes, mac_case, ret, idx, cmds,
                   admin_host_ipaddr, entries, available_hosts, broken,
                   reachlog, available_hosts2, inventory, syslogged,
                   autoyast_from, released, pxe_conf, arm_failed, ack_fresh,
                   scanned>>

\* line 414: write_pxe_file(args, eth0_macaddr, caasp_admin_pxecfg)
DA_WritePxe ==
    /\ AdminCommand("da_pxe", "upload_pxe_conf", "da_off")
    /\ pxe_conf' = Uploaded(AdminNode, AdminConf)
    /\ UNCHANGED <<args, max_failing_nodes, mac_case, ret, idx,
                   admin_host_ipaddr, entries, available_hosts, broken,
                   reachlog, available_hosts2, inventory, syslogged,
                   autoyast_from, released, hw_locked, arm_failed, ack_fresh,
                   scanned>>

\* line 416-418
DA_PowerOff ==
    /\ AdminCommand("da_off", "power_off", "da_arm")
    /\ UNCHANGED <<args, max_failing_nodes, mac_case, ret, idx,
                   admin_host_ipaddr, entries, available_hosts, broken,
                   reachlog, available_hosts2, inventory, syslogged,
                   autoyast_from, released, hw_locked, pxe_conf, arm_failed,
                   ack_fresh, scanned>>

\* line 419-421
DA_Arm ==
    /\ AdminCommand("da_arm", "set_one_time_network_boot", "da_on")
    /\ UNCHANGED <<args, max_failing_nodes, mac_case, ret, idx,
                   admin_host_ipaddr, entries, available_hosts, broken,
                   reachlog, available_hosts2, inventory, syslogged,
                   autoyast_from, released, hw_locked, pxe_conf, arm_failed,
                   ack_fresh, scanned>>

\* line 422-424
DA_PowerOn ==
    /\ AdminCommand("da_on", "power_on", "da_dhcp")
    /\ UNCHANGED <<args, max_failing_nodes, mac_case, ret, idx,
                   admin_host_ipaddr, entries, available_hosts, broken,
                   reachlog, available_hosts2, inventory, syslogged,
                   autoyast_from, released, hw_locked, pxe_conf, arm_failed,
                   ack_fresh, scanned>>

\* parse_dhcp_logs, line 499-504: the address of the lower-cased hardware
\* address in the feed, None (NoIp) if absent
parse_dhcp_logs(feed, macaddr) == Lookup(feed, lower(macaddr))

\* line 426-431: one poll of the admin's DHCP ACK
DA_Dhcp ==
    /\ pc = "da_dhcp"
    /\ \/ \E feed \in Feeds({AdminNode}) :
            LET ipaddr == parse_dhcp_logs(feed, eth0_macaddr(AdminNode)) IN
            /\ admin_host_ipaddr' = ipaddr
            /\ pc' = IF ipaddr # NoIp THEN "da_scan" ELSE "da_dhcp_sleep"
            /\ ack_fresh' = (ipaddr # NoIp)
            /\ error' = error
       \/ /\ Raise(APIError)
          /\ admin_host_ipaddr' = admin_host_ipaddr
          /\ ack_fresh' = ack_fresh
    /\ UNCHANGED <<args, max_failing_nodes, mac_case, ret, idx, cmds, entries,
                   available_hosts, broken, reachlog, available_hosts2,
                   inventory, syslogged, autoyast_from, released, hw_locked,
                   pxe_conf, arm_failed, scanned>>

\* line 432: sleep(30)
DA_DhcpSleep ==
    /\ pc = "da_dhcp_sleep"
    /\ pc' = "da_dhcp"
    /\ UNCHANGED <<args, max_failing_nodes, mac_case, ret, idx, cmds,
                   admin_host_ipaddr, entries, available_hosts, broken,
                   reachlog, available_hosts2, inventory, syslogged,
                   autoyast_from, released, hw_locked, pxe_conf, arm_failed,
                   ack_fresh, scanned, error>>

\* The history of the reachability loop's gateway calls, the last MaxLog
Logged(call) ==
    LET l == Append(reachlog, call) IN
    IF Len(l) > MaxLog THEN Tail(l) ELSE l

\* mutant: the scan's error is ignored
AfterScan_Ignore(r) == "da_probe"

\* What the loop does with a scan result r["error"], line 437-440: raise
\* on a non-empty error, otherwise go on to the port probe
AfterScan(r) == IF r # "" THEN "error" ELSE "da_probe"

\* line 436-440: scan_syslog_logs(ipaddr, t0)
DA_Scan ==
    /\ pc = "da_scan"
    /\ \/ \E r \in Excerpts \cup {""} :
            /\ reachlog' = Logged(<<"scan", r>>)
            /\ pc' = AfterScan(r)
            /\ error' = IF AfterScan(r) = "error" THEN SyslogError(r)
                        ELSE error
       \/ Raise(APIError) /\ reachlog' = Logged(<<"scan", "raise">>)
    /\ scanned' = scanned \cup {AdminNode}
    /\ UNCHANGED <<args, max_failing_nodes, mac_case, ret, idx, cmds,
                   admin_host_ipaddr, entries, available_hosts, broken,
                   available_hosts2, inventory, syslogged, autoyast_from,
                   released, hw_locked, pxe_conf, arm_failed, ack_fresh>>

\* mutant: the loop is left on any probe result
AfterProbe_Any(v) == "da_syslog"

\* What the loop does with a probe result, line 442-444: break on "open"
AfterProbe(v) == IF v = "open" THEN "da_syslog" ELSE "da_reach_sleep"

\* line 442-443: probe_ssh_port(ipaddr)
DA_Probe ==
    /\ pc = "da_probe"
    /\ \/ \E v \in {"open", "closed"} :
            /\ reachlog' = Logged(<<"probe", v>>)
            /\ pc' = AfterProbe(v)
            /\ error' = error
       \/ Raise(APIError) /\ reachlog' = Logged(<<"probe", "raise">>)
    /\ UNCHANGED <<args, max_failing_nodes, mac_case, ret, idx, cmds,
                   admin_host_ipaddr, entries, available_hosts, broken,
                   available_hosts2, inventory, syslogged, autoyast_from,
                   released, hw_locked, pxe_conf, arm_failed, ack_fresh,
                   scanned>>

\* line 444: sleep(10)
DA_ReachSleep ==
    /\ pc = "da_reach_sleep"
    /\ pc' = "da_scan"
    /\ UNCHANGED <<args, max_failing_nodes, mac_case, ret, idx, cmds,
                   admin_host_ipaddr, entries, available_hosts, broken,
                   reachlog, available_hosts2, inventory, syslogged,
                   autoyast_from, released, hw_locked, pxe_conf, arm_failed,
                   ack_fresh, scanned, error>>

\* line 446-452: sleep, fetch_and_write_syslog_logs, return ipaddr; an
\* exception of the fetch or the write is not caught
DA_Syslog ==
    /\ pc = "da_syslog"
    /\ \E ok \in BOOLEAN :
         IF ok
         THEN /\ syslogged' = syslogged \cup {<<AdminNode, admin_host_ipaddr>>}
              /\ pc' = "ge_start"
              /\ error' = error
         ELSE Raise(SyslogFetchError) /\ syslogged' = syslogged
    /\ UNCHANGED <<args, max_failing_nodes, mac_case, ret, idx, cmds,
                   admin_host_ipaddr, entries, available_hosts, broken,
                   reachlog, available_hosts2, inventory, released, hw_locked,
                   pxe_conf, arm_failed, ack_fresh, scanned, autoyast_from>>

\* ---------------------------------------------- generate_environment_json
\* inventory records (name, serial, macaddr, ipaddr, machine_id), kept as
\* <<kind, server, ipaddr>>
BogusIp == MaxIP + 1
AdminRecord(ip) == <<"admin", AdminId, ip>>
NodeRecord(h) == <<"node", h[1], h[2]>>
BogusRecord == <<"bogus", AdminId, BogusIp>>

\* line 634-642: deploy the SSH keys, fetch the admin's machine id
GE_Start ==
    /\ pc = "ge_start"
    /\ \E ok \in BOOLEAN :
         IF ok
         THEN /\ available_hosts2' = {AdminRecord(admin_host_ipaddr)}
              /\ pc' = "ge_ids"
              /\ error' = error
         ELSE Raise(APIError) /\ available_hosts2' = available_hosts2
    /\ UNCHANGED <<args, max_failing_nodes, mac_case, ret, idx, cmds,
                   admin_host_ipaddr, entries, available_hosts, broken,
                   reachlog, inventory, syslogged, autoyast_from, released,
                   hw_locked, pxe_conf, arm_failed, ack_fresh, scanned>>

\* The hosts of available_hosts the loop of line 645 has not done yet, and
\* the one it takes next (the iteration order of the set is fixed here).
IdsTodo == {h \in available_hosts : NodeRecord(h) \notin available_hosts2}
First(S) ==
    CHOOSE h \in S : \A g \in S :
        h[1] < g[1] \/ (h[1] = g[1] /\ h[2] <= g[2])

\* line 645-658: fetch_machine_id, retried after sleep(10) on APIError
GE_FetchId ==
    /\ pc = "ge_ids" /\ IdsTodo # {}
    /\ \E ok \in BOOLEAN :
         IF ok
         THEN /\ available_hosts2' =
                    available_hosts2 \cup {NodeRecord(First(IdsTodo))}
              /\ pc' = pc
         ELSE /\ available_hosts2' = available_hosts2
              /\ pc' = "ge_sleep"
    /\ UNCHANGED <<args, max_failing_nodes, mac_case, ret, idx, cmds,
                   admin_host_ipaddr, entries, available_hosts, broken,
                   reachlog, inventory, syslogged, autoyast_from, released,
                   hw_locked, pxe_conf, arm_failed, ack_fresh, scanned,
                   error>>

\* line 658: sleep(10)
GE_Sleep ==
    /\ pc = "ge_sleep"
    /\ pc' = "ge_ids"
    /\ UNCHANGED <<args, max_failing_nodes, mac_case, ret, idx, cmds,
                   admin_host_ipaddr, entries, available_hosts, broken,
                   reachlog, available_hosts2, inventory, syslogged,
                   autoyast_from, released, hw_locked, pxe_conf, arm_failed,
                   ack_fresh, scanned, error>>

\* line 662-666: the bogus host of use_bogus_hosts (main passes it for
\* --admin), then create_environment_json
GE_Create ==
    /\ pc = "ge_ids" /\ IdsTodo = {}
    /\ inventory' = available_hosts2 \cup
                    (IF args.admin THEN {BogusRecord} ELSE {})
    /\ pc' = IF args.admin THEN "done" ELSE "fn_syslog"
    /\ UNCHANGED <<args, max_failing_nodes, mac_case, ret, idx, cmds,
                   admin_host_ipaddr, entries, available_hosts, broken,
                   reachlog, available_hosts2, syslogged, autoyast_from,
                   released, hw_locked, pxe_conf, arm_failed, ack_fresh,
                   scanned, error>>

\* ------------------------------------------------ main, --deploy-nodes
\* line 773-774
MN_Fetch ==
    /\ FetchServersList("mn_fetch", "mn_discover", TRUE)
    /\ UNCHANGED <<args, max_failing_nodes, mac_case, ret, idx, cmds,
                   admin_host_ipaddr, entries, available_hosts, broken,
                   reachlog, available_hosts2, inventory, syslogged,
                   autoyast_from, released, pxe_conf, arm_failed, ack_fresh,
                   scanned>>

\* mutant: the assert lets every value pass
Asserted_Any(ipaddr) == TRUE

\* line 779: assert admin_host_ipaddr
Asserted(ipaddr) == ipaddr # NoIp

\* line 771-779: the admin's address from the DHCP feed of the last four
\* hours; assert admin_host_ipaddr
MN_Discover ==
    /\ pc = "mn_discover"
    /\ \/ \E feed \in Feeds({AdminNode}) :
            LET ipaddr == parse_dhcp_logs(feed, eth0_macaddr(AdminNode)) IN
            /\ admin_host_ipaddr' = ipaddr
            /\ \E since_power_on \in BOOLEAN :
                 ack_fresh' = (ipaddr # NoIp /\ since_power_on)
            /\ IF Asserted(ipaddr)
               THEN pc' = "mn_mangle" /\ error' = error
               ELSE Raise(AssertionError)
       \/ /\ Raise(APIError)
          /\ admin_host_ipaddr' = admin_host_ipaddr
          /\ ack_fresh' = ack_fresh
    /\ UNCHANGED <<args, max_failing_nodes, mac_case, ret, idx, cmds, entries,
                   available_hosts, broken, reachlog, available_hosts2,
                   inventory, syslogged, autoyast_from, released, hw_locked,
                   pxe_conf, arm_failed, scanned>>

\* line 780-781: fetch_and_mangle_worker_autoyast (the profile is fetched
\* from https://admin_host_ipaddr and checked, line 482-486), then
\* power_off_nodes
MN_Mangle ==
    /\ pc = "mn_mangle"
    /\ \E ok \in BOOLEAN :
         IF ok
         THEN /\ autoyast_from' = admin_host_ipaddr
              /\ pc' = "pon_fetch" /\ ret' = "nodes" /\ error' = error
         ELSE /\ autoyast_from' = autoyast_from
              /\ Raise(APIError) /\ ret' = ret
    /\ UNCHANGED <<args, max_failing_nodes, mac_case, idx, cmds,
                   admin_host_ipaddr, entries, available_hosts, broken,
                   reachlog, available_hosts2, inventory, syslogged, released,
                   hw_locked, pxe_conf, arm_failed, ack_fresh, scanned>>

\* ---------------------------------------------------------- deploy_nodes
\* line 532: the nodes
DN_Fetch ==
    /\ FetchServersList("dn_fetch",
                        IF hw_locked' <= 1 THEN "dn_threshold" ELSE "dn_pxe",
                        FALSE)
    /\ UNCHANGED <<args, max_failing_nodes, mac_case, ret, idx, cmds,
                   admin_host_ipaddr, entries, available_hosts, broken,
                   reachlog, available_hosts2, inventory, syslogged,
                   autoyast_from, released, pxe_conf, arm_failed, ack_fresh,
                   scanned>>

\* line 541-546: the boot configuration of every node
DN_WritePxe ==
    /\ pc = "dn_pxe"
    /\ cmds' = Issue(servers[idx], "upload_pxe_conf")
    /\ \E ok \in BOOLEAN :
         IF ok
         THEN /\ idx' = NextIdx
              /\ pc' = IF LastIteration THEN "dn_arm" ELSE pc
              /\ error' = error
         ELSE Raise(APIError) /\ idx' = 1
    /\ pxe_conf' = Uploaded(servers[idx], caasp_node_pxecfg(admin_host_ipaddr))
    /\ UNCHANGED <<args, max_failing_nodes, mac_case, ret, admin_host_ipaddr,
                   entries, available_hosts, broken, reachlog,
                   available_hosts2, inventory, syslogged, autoyast_from,
                   released, hw_locked, arm_failed, ack_fresh, scanned>>

\* line 548-554: set_one_time_network_boot; an exception is logged and
\* the loop goes on.  arm_failed holds the nodes of these log lines while
\* deploy_nodes is in its netboot and power-on loops.
DN_Arm ==
    /\ pc = "dn_arm"
    /\ cmds' = Issue(servers[idx], "set_one_time_network_boot")
    /\ \E ok \in BOOLEAN :
         arm_failed' = IF ok THEN arm_failed
                       ELSE arm_failed \cup {servers[idx]}
    /\ idx' = NextIdx
    /\ pc' = IF LastIteration THEN "dn_on" ELSE pc
    /\ UNCHANGED <<args, max_failing_nodes, mac_case, ret, admin_host_ipaddr,
                   entries, available_hosts, broken, reachlog,
                   available_hosts2, inventory, syslogged, autoyast_from,
                   released, hw_locked, pxe_conf, ack_fresh, scanned, error>>

\* line 560-566: power_on for every node
DN_PowerOn ==
    /\ pc = "dn_on"
    /\ cmds' = Issue(servers[idx], "power_on")
    /\ \/ /\ idx' = NextIdx
          /\ pc' = IF LastIteration THEN "dn_recheck" ELSE pc
          /\ error' = error
          /\ arm_failed' = IF LastIteration THEN {} ELSE arm_failed
       \/ Raise(APIError) /\ idx' = 1 /\ arm_failed' = arm_failed
    /\ UNCHANGED <<args, max_failing_nodes, mac_case, ret, admin_host_ipaddr,
                   entries, available_hosts, broken, reachlog,
                   available_hosts2, inventory, syslogged, autoyast_from,
                   released, hw_locked, pxe_conf, ack_fresh, scanned>>

\* line 572-574: the command sent to a node whose power status reads off
RecheckCommand == "power_off"

\* line 570-574: the power status of every node is read again
DN_Recheck ==
    /\ pc = "dn_recheck"
    /\ \E power \in {"on", "off", "raise"} :
         /\ cmds' = IF power = "off"
                    THEN Issue(servers[idx], RecheckCommand) ELSE cmds
         /\ \/ /\ power # "raise"
               /\ idx' = NextIdx
               /\ pc' = IF LastIteration THEN "dn_final" ELSE pc
               /\ error' = error
            \/ /\ power # "on"
               /\ Raise(APIError) /\ idx' = 1
    /\ UNCHANGED <<args, max_failing_nodes, mac_case, ret, admin_host_ipaddr,
                   entries, available_hosts, broken, reachlog,
                   available_hosts2, inventory, syslogged, autoyast_from,
                   released, hw_locked, pxe_conf, arm_failed, ack_fresh,
                   scanned>>

\* line 581-588: the hosts that do not power up are logged and counted
DN_FinalCheck ==
    /\ pc = "dn_final"
    /\ \E power \in {"on", "off", "raise"} :
         /\ broken' = IF power = "off"
                      THEN broken \cup {servers[idx]} ELSE broken
         /\ IF power = "raise"
            THEN Raise(APIError) /\ idx' = 1
            ELSE /\ idx' = NextIdx
                 /\ pc' = IF LastIteration THEN "dn_threshold" ELSE pc
                 /\ error' = error
    /\ UNCHANGED <<args, max_failing_nodes, mac_case, ret, cmds,
                   admin_host_ipaddr, entries, available_hosts, reachlog,
                   available_hosts2, inventory, syslogged, autoyast_from,
                   released, hw_locked, pxe_conf, arm_failed, ack_fresh,
                   scanned>>

not_powering_up_hosts_cnt == Cardinality(broken)

\* line 590-594: too many broken hosts end the run, otherwise
\* wait_dhcp_acks starts with an empty set
DN_Threshold ==
    /\ pc = "dn_threshold"
    /\ IF not_powering_up_hosts_cnt > max_failing_nodes
       THEN Raise(NotPoweringUp(not_powering_up_hosts_cnt))
       ELSE pc' = "wd_poll" /\ error' = error
    /\ available_hosts' = {}
    /\ UNCHANGED <<args, max_failing_nodes, mac_case, ret, idx, cmds,
                   admin_host_ipaddr, entries, broken, reachlog,
                   available_hosts2, inventory, syslogged, autoyast_from,
                   released, hw_locked, pxe_conf, arm_failed, ack_fresh,
                   scanned>>

\* -------------------------------------------------------- wait_dhcp_acks
\* mutant: the set is rebuilt from the feed of this poll alone
PollRound_Fresh(avail, feed) ==
    { <<servers[i], Lookup(feed, eth0_macaddr(servers[i]))>> :
        i \in {j \in 1..Len(servers) :
                 Lookup(feed, eth0_macaddr(servers[j])) # NoIp} }

\* mutant: a host of the feed that is already in the set is taken out of it
PollRound_Toggle(avail, feed) ==
    LET found == { <<servers[i], Lookup(feed, eth0_macaddr(servers[i]))>> :
                     i \in {j \in 1..Len(servers) :
                              Lookup(feed, eth0_macaddr(servers[j])) # NoIp} }
    IN  (avail \cup found) \ (avail \cap found)

\* line 511-520: one pass over servers with the feed of this poll; a host
\* is the tuple (servername, serial, eth0_macaddr, ipaddr), kept as
\* <<server, ipaddr>>
PollRound(avail, feed) ==
    avail \cup
    { <<servers[i], Lookup(feed, eth0_macaddr(servers[i]))>> :
        i \in {j \in 1..Len(servers) :
                 Lookup(feed, eth0_macaddr(servers[j])) # NoIp} }

\* line 522: len(available_hosts) >= len(servers) - max_failing_nodes
Enough(avail) == Cardinality(avail) >= Len(servers) - max_failing_nodes

NoEntries == << >>

\* line 508-523, 527: one polling round; on break the set is returned to
\* deploy_nodes and main calls generate_environment_json
WD_Poll ==
    /\ pc = "wd_poll"
    /\ \/ \E feed \in Feeds(NodeIds) :
            /\ available_hosts' = PollRound(available_hosts, feed)
            /\ IF Enough(available_hosts')
               THEN pc' = "ge_start" /\ entries' = NoEntries
               ELSE pc' = "wd_sleep" /\ entries' = feed
            /\ error' = error
       \/ /\ Raise(APIError)
          /\ available_hosts' = available_hosts
          /\ entries' = NoEntries
    /\ UNCHANGED <<args, max_failing_nodes, mac_case, ret, idx, cmds,
                   admin_host_ipaddr, broken, reachlog, available_hosts2,
                   inventory, syslogged, autoyast_from, released, hw_locked,
                   pxe_conf, arm_failed, ack_fresh, scanned>>

\* line 525: sleep(30)
WD_Sleep ==
    /\ pc = "wd_sleep"
    /\ pc' = "wd_poll"
    /\ UNCHANGED <<args, max_failing_nodes, mac_case, ret, idx, cmds,
                   admin_host_ipaddr, entries, available_hosts, broken,
                   reachlog, available_hosts2, inventory, syslogged,
                   autoyast_from, released, hw_locked, pxe_conf, arm_failed,
                   ack_fresh, scanned, error>>

\* ----------------------------------------------- fetch_nodes_syslog_logs
SyslogTodo == available_hosts \ syslogged

\* line 600-602: the syslog of every host of available_hosts; an exception
\* is not caught
FN_Syslog ==
    /\ pc = "fn_syslog" /\ SyslogTodo # {}
    /\ \E ok \in BOOLEAN :
         IF ok
         THEN /\ syslogged' = syslogged \cup {First(SyslogTodo)}
              /\ pc' = pc
              /\ error' = error
         ELSE Raise(SyslogFetchError) /\ syslogged' = syslogged
    /\ UNCHANGED <<args, max_failing_nodes, mac_case, ret, idx, cmds,
                   admin_host_ipaddr, entries, available_hosts, broken,
                   reachlog, available_hosts2, inventory, released, hw_locked,
                   pxe_conf, arm_failed, ack_fresh, scanned, autoyast_from>>

\* line 787: "Nodes deployment - done"
FN_Done ==
    /\ pc = "fn_syslog" /\ SyslogTodo = {}
    /\ pc' = "done"
    /\ UNCHANGED <<args, max_failing_nodes, mac_case, ret, idx, cmds,
                   admin_host_ipaddr, entries, available_hosts, broken,
                   reachlog, available_hosts2, inventory, syslogged,
                   autoyast_from, released, hw_locked, pxe_conf, arm_failed,
                   ack_fresh, scanned, error>>

\* --------------------------------------------------------- specification
Next ==
    \/ Main_Release \/ Main_HandleIso
    \/ WA_Fetch \/ PON_Fetch \/ DA_Fetch \/ MN_Fetch \/ DN_Fetch
    \/ WA_WritePxe \/ WA_PowerOff \/ WA_Arm \/ WA_PowerOn
    \/ PON_PowerOff \/ PON_Recheck
    \/ DA_WritePxe \/ DA_PowerOff \/ DA_Arm \/ DA_PowerOn
    \/ DA_Dhcp \/ DA_DhcpSleep
    \/ DA_Scan \/ DA_Probe \/ DA_ReachSleep \/ DA_Syslog
    \/ GE_Start \/ GE_FetchId \/ GE_Sleep \/ GE_Create
    \/ MN_Discover \/ MN_Mangle
    \/ DN_WritePxe \/ DN_Arm \/ DN_PowerOn \/ DN_Recheck \/ DN_FinalCheck
    \/ DN_Threshold
    \/ WD_Poll \/ WD_Sleep
    \/ FN_Syslog \/ FN_Done

Spec == Init /\ [][Next]_vars

\* The script is one thread that always takes its next step; what the
\* environment answers is not constrained.
FairSpec == Spec /\ WF_vars(Next)

\* ------------------------------------------------------- terms of claims
NodeMode == args.deploy_nodes /\ ~args.admin /\ ~args.release

\* A node is resolved when wait_dhcp_acks holds a host tuple for it.
Resolved(s) == \E h \in available_hosts : h[1] = s
ResolvedServers == {s \in NodeIds : Resolved(s)}

\* inventory records of a server
Records(inv, s) == {r \in inv : r[1] = "node" /\ r[2] = s}

Has(s, c) == \E i \in 1..Len(cmds[s]) : cmds[s][i] = c
FirstIdx(s, c) == CHOOSE i \in 1..Len(cmds[s]) :
    cmds[s][i] = c /\ \A j \in 1..(i - 1) : cmds[s][j] # c
LastIdx(s, c) == CHOOSE i \in 1..Len(cmds[s]) :
    cmds[s][i] = c /\ \A j \in (i + 1)..Len(cmds[s]) : cmds[s][j] # c

\* Command b was issued to s only after command a had been issued to s.
Before(s, a, b) == Has(s, b) => (Has(s, a) /\ FirstIdx(s, a) < FirstIdx(s, b))

\* The power command issued last, and whether the one-time network boot
\* was armed since the host was last powered on.
PoweredOn(s) ==
    /\ Has(s, "power_on")
    /\ (Has(s, "power_off") => LastIdx(s, "power_off") < LastIdx(s, "power_on"))
PoweredOff(s) == Has(s, "power_off") /\ ~PoweredOn(s)
Armed(s) ==
    /\ Has(s, "set_one_time_network_boot")
    /\ (Has(s, "power_on") =>
          LastIdx(s, "power_on") < LastIdx(s, "set_one_time_network_boot"))

\* The lifecycle state of a host, read off the run's state; Awaiting* are
\* not told apart from the state before them.
Failed(s) ==
    IF s = AdminNode THEN error.kind = "syslog" ELSE s \in broken
HasAddress(s) ==
    IF s = AdminNode THEN admin_host_ipaddr # NoIp ELSE Resolved(s)
IsReachable(s) ==
    /\ s = AdminNode
    /\ Len(reachlog) > 0
    /\ reachlog[Len(reachlog)] = <<"probe", "open">>
Lifecycle(s) ==
    IF Failed(s) THEN "Failed"
    ELSE IF \E h \in syslogged : h[1] = s THEN "DiagnosticsCollected"
    ELSE IF IsReachable(s) THEN "Reachable"
    ELSE IF HasAddress(s) THEN "AddressResolved"
    ELSE IF ~Has(s, "upload_pxe_conf") THEN "Reserved"
    ELSE IF PoweredOn(s) THEN "PoweredOn"
    ELSE IF PoweredOff(s) /\ Armed(s) THEN "NetbootArmed"
    ELSE IF PoweredOff(s) THEN "PoweredOff"
    ELSE "BootConfigured"

Canonical ==
    <<"Reserved", "BootConfigured", "PoweredOff", "NetbootArmed",
      "PoweredOn", "AwaitingAddress", "AddressResolved",
      "AwaitingReachability", "Reachable", "DiagnosticsCollected", "Failed">>
Rank(st) == CHOOSE i \in 1..Len(Canonical) : Canonical[i] = st

\* ---------------------------------------------------------------- claims

\* C1: a node group of N hosts with tolerance K succeeds only if at least
\* N-K hosts succeeded (got an address and an inventory record), and a run
\* that ends in the fleet-level error has more than K failed hosts.
C1_GroupSucceedsIffEnough ==
    /\ (NodeMode /\ pc = "done") =>
           Cardinality(ResolvedServers) >= NumNodes - max_failing_nodes
    /\ (NodeMode /\ error.kind = "not_powering_up") =>
           Cardinality(broken) > max_failing_nodes

\* C2: in a run without --wipe-admin no step takes a host to an earlier
\* lifecycle state: the state only advances in the canonical order or
\* becomes Failed.
C2_LifecycleMonotonic ==
    [][~args.wipe_admin =>
          \A s \in ServerIds : Rank(Lifecycle(s))' >= Rank(Lifecycle(s))]_vars

C4_ResolvedStaysResolved ==
    [][(pc \in {"wd_poll", "wd_sleep"}) =>
          \A s \in NodeIds : Resolved(s) => Resolved(s)']_vars

\* C4 witness: a resolved host was absent from the feed of the last round.
C4_Witness ==
    /\ pc = "wd_sleep"
    /\ \E s \in NodeIds :
           Resolved(s) /\ Lookup(entries, eth0_macaddr(s)) = NoIp

\* C5: after every polling round each hardware address has at most one
\* resolved address, the one of the most recent observation.
C5_OneAddressPerHost ==
    /\ \A h \in available_hosts, g \in available_hosts :
           h[1] = g[1] => h[2] = g[2]
    /\ pc = "wd_sleep" =>
           \A h \in available_hosts :
               Lookup(entries, eth0_macaddr(h[1])) \in {NoIp, h[2]}

\* C6: when wait_dhcp_acks returns, at least N-K distinct servers of the
\* group have a resolved address.
C6_ReturnsWithEnoughServers ==
    (NodeMode /\ pc = "ge_start") =>
        Cardinality(ResolvedServers) >= Len(servers) - max_failing_nodes

\* C7: every host's run reaches a terminal outcome: the run does not stay
\* for ever in the wait for an address or in the wait for reachability.
AddressWait == pc \in {"da_dhcp", "da_dhcp_sleep", "wd_poll", "wd_sleep"}
ReachabilityWait == pc \in {"da_scan", "da_probe", "da_reach_sleep"}
C7_WaitsEnd == []<>(~AddressWait /\ ~ReachabilityWait)

\* C8: a scan that returns a non-empty error is the last call of the
\* reachability loop (no probe in that round or later), and the run has
\* ended with that excerpt as its error.
C8_ScanErrorFailsFast ==
    \A i \in 1..Len(reachlog) :
        (reachlog[i][1] = "scan" /\ reachlog[i][2] \in Excerpts) =>
            /\ i = Len(reachlog)
            /\ pc = "error"
            /\ error = SyslogError(reachlog[i][2])

\* C8 witness: the error came in a later round, after a closed probe.
C8_Witness ==
    /\ pc = "error" /\ error.kind = "syslog"
    /\ Len(reachlog) >= 3
    /\ reachlog[Len(reachlog) - 1] = <<"probe", "closed">>

\* C9: the reachability loop is left as reachable exactly at the first
\* open probe: an open probe is the last call of the loop, and the loop is
\* never left towards the syslog fetch without one.
InReachLoop == pc \in {"da_scan", "da_probe", "da_reach_sleep"}
PastReachLoop ==
    /\ args.admin /\ ~args.release
    /\ pc \in {"da_syslog", "ge_start", "ge_ids", "ge_sleep", "done"}
C9_ReachableOnFirstOpen ==
    /\ \A i \in 1..Len(reachlog) :
           reachlog[i] = <<"probe", "open">> =>
               i = Len(reachlog) /\ ~InReachLoop
    /\ PastReachLoop =>
           /\ Len(reachlog) > 0
           /\ reachlog[Len(reachlog)] = <<"probe", "open">>

\* C9 witness: the probe opened in the second round.
C9_Witness ==
    /\ pc = "da_syslog"
    /\ Len(reachlog) >= 4
    /\ reachlog[Len(reachlog) - 2] = <<"probe", "closed">>

\* C10 as stated: for every host the run deploys, write boot configuration,
\* power off, arm, power on are each issued only after their predecessor.
Deployed(s) ==
    IF s = AdminNode THEN args.admin /\ ~args.release ELSE NodeMode
C10_CanonicalCommandOrder ==
    \A s \in ServerIds :
        Deployed(s) =>
            /\ Before(s, "upload_pxe_conf", "power_off")
            /\ Before(s, "power_off", "set_one_time_network_boot")
            /\ Before(s, "set_one_time_network_boot", "power_on")

\* C10 amended: the arm is issued only after a boot configuration write and
\* a power off, the power on only after the arm; the admin's write precedes
\* its power off, a node's power off (power_off_nodes) precedes its write.
C10_CommandOrder ==
    \A s \in ServerIds :
        /\ Before(s, "upload_pxe_conf", "set_one_time_network_boot")
        /\ Before(s, "power_off", "set_one_time_network_boot")
        /\ Before(s, "set_one_time_network_boot", "power_on")
        /\ IF s = AdminNode
           THEN Before(s, "upload_pxe_conf", "power_off")
           ELSE Before(s, "power_off", "upload_pxe_conf")

\* C10 witness: a node deployment that issued all four commands.
C10_Witness ==
    /\ NodeMode /\ pc = "wd_poll"
    /\ \A s \in NodeIds : Has(s, "power_on")

\* C11: a power-control command that failed for a host is not ignored: a
\* node whose set_one_time_network_boot raised is sent no later command,
\* the failed netboot call stays the last command of its history.
C11_FailedCommandNotIgnored ==
    \A s \in arm_failed :
        cmds[s][Len(cmds[s])] = "set_one_time_network_boot"

\* C12: a node has a boot configuration written or is powered on only when
\* the admin's address is known and non-empty and the autoyast profile was
\* fetched from the admin at that address; every boot configuration
\* written for a node embeds exactly that address.
C12_NodesAfterAdmin ==
    \A s \in NodeIds :
        /\ (Has(s, "upload_pxe_conf") \/ Has(s, "power_on")) =>
               /\ admin_host_ipaddr \in IPs
               /\ autoyast_from = admin_host_ipaddr
        /\ pxe_conf[s] \in {NoConf, caasp_node_pxecfg(admin_host_ipaddr)}

\* C12 witness: every node has its boot configuration and was powered on.
C12_Witness ==
    /\ pc = "wd_poll"
    /\ \A s \in NodeIds :
           /\ pxe_conf[s] = caasp_node_pxecfg(admin_host_ipaddr)
           /\ Has(s, "power_on")

\* C13: a gateway command that fails for one node does not keep its
\* siblings from their own commands: when a run that began to write the
\* nodes' boot configurations has ended, every node was sent its boot
\* configuration, the netboot call and power_on.
C13_SiblingsStillDriven ==
    (/\ NodeMode
     /\ pc \in {"done", "error"}
     /\ \E s \in NodeIds : Has(s, "upload_pxe_conf")) =>
        \A s \in NodeIds :
            /\ Has(s, "upload_pxe_conf")
            /\ Has(s, "set_one_time_network_boot")
            /\ Has(s, "power_on")

\* C14: a failure while a host's syslog is fetched or written does not
\* change the outcome: the run of a reachable admin, and the run of nodes
\* that are in the inventory, does not end with the exception of
\* fetch_and_write_syslog_logs.
C14_SyslogFailureKeepsOutcome ==
    /\ (args.admin /\ IsReachable(AdminNode)) => error.kind # "fetch_syslog"
    /\ (NodeMode /\ inventory # {}) => error.kind # "fetch_syslog"

\* C15: with the tolerance 0 that main passes, the inventory of a node
\* deployment holds exactly one record for the admin and exactly one for
\* every node (each of them succeeded), 1 + NumNodes records in all, and
\* each record carries the address the node resolved to.
C15_OneRecordPerSucceededHost ==
    (NodeMode /\ inventory # {} /\ max_failing_nodes = 0) =>
        /\ Cardinality({r \in inventory : r[1] = "admin"}) = 1
        /\ \A s \in NodeIds :
               /\ Resolved(s)
               /\ Cardinality(Records(inventory, s)) = 1
        /\ Cardinality(inventory) = 1 + NumNodes

\* C16: the machine-id lookups of generate_environment_json come to an end:
\* the run is again and again outside the lookup loop.
MachineIdLookup == pc \in {"ge_ids", "ge_sleep"}
C16_LookupEnds == []<>(~MachineIdLookup)

\* C17: when the BMM provides fewer servers than num_servers, whether they
\* were locked before or are locked by this run, no boot configuration is
\* uploaded and no power command is issued for any host.
C17_ShortfallAbortsFirst ==
    (~args.release /\ hw_locked < num_servers) =>
        \A s \in ServerIds : cmds[s] = << >>

\* C18: the admin address the run uses, to probe and scan the admin or to
\* build the nodes' boot configuration, comes from a DHCP ACK logged at or
\* after the admin's power on; a node's address comes from a feed fetched
\* with the nodes' power_up_time, after power_on was sent to it.
C18_AddressSincePowerOn ==
    /\ admin_host_ipaddr # NoIp => ack_fresh
    /\ \A s \in NodeIds : Resolved(s) => Has(s, "power_on")

\* C19: a host whose syslog scan would report a boot or installer error
\* after its address is resolved is not in the inventory: every node with
\* an inventory record had scan_syslog_logs called for it, and a run whose
\* admin scan reported an error creates no inventory.
C19_ScannedBeforeInventory ==
    /\ \A s \in NodeIds : Records(inventory, s) # {} => s \in scanned
    /\ error.kind = "syslog" => inventory = {}

\* C20: a run that sent commands to the servers locked for the test name
\* and has ended, normally or with an exception, leaves none of them
\* locked: release_servers was called.
C20_EndedRunsReleased ==
    (/\ pc \in {"done", "error"}
     /\ hw_locked > 0
     /\ \E s \in ServerIds : cmds[s] # << >>) => released

\* C21: a poll of wait_dhcp_acks repeated against the same feed changes
\* nothing: for the set of every state of the polling loop and every feed,
\* two rounds with the feed give the set that one round gives.
C21_PollIdempotent ==
    (pc \in {"wd_poll", "wd_sleep"}) =>
        \A feed \in Feeds(NodeIds) :
            PollRound(PollRound(available_hosts, feed), feed) =
                PollRound(available_hosts, feed)

\* C21 witness: the set holds a host and there is a feed whose round adds
\* another tuple to it.
C21_Witness ==
    /\ pc = "wd_poll"
    /\ available_hosts # {}
    /\ \E feed \in Feeds(NodeIds) :
           PollRound(available_hosts, feed) # available_hosts

\* C22: the recheck of deploy_nodes never powers a node off: a node that
\* was sent power_on has power_on as the last power command of its history.
C22_RecheckPowersOn ==
    \A s \in NodeIds : Has(s, "power_on") => PoweredOn(s)

\* C23: a run with --release, whatever other flags it has, does nothing but
\* release_servers: it is at the start of main or has ended, ended normally
\* only with the servers released, and it has uploaded no boot
\* configuration, sent no power command, polled no address, scanned or
\* probed no host and generated no inventory.
C23_ReleaseOnly ==
    args.release =>
        /\ pc \in {"main", "done", "error"}
        /\ pc = "done" <=> released
        /\ pc = "error" => error = APIError
        /\ \A s \in ServerIds : cmds[s] = << >> /\ pxe_conf[s] = NoConf
        /\ admin_host_ipaddr = NoIp /\ autoyast_from = NoIp
        /\ entries = << >> /\ available_hosts = {}
        /\ reachlog = << >> /\ scanned = {}
        /\ available_hosts2 = {} /\ inventory = {} /\ syslogged = {}

\* C23 witness: --release given together with the deployment flags, and
\* the servers released.
C23_Witness ==
    /\ args.release /\ args.admin /\ args.deploy_nodes /\ args.wipe_admin
    /\ pc = "done" /\ released /\ hw_locked = 0

\* C24: the admin-only list and the nodes-only list of fetch_servers_list
\* have no host in common and together are the full list, and no step of
\* power_off_nodes or deploy_nodes sends the admin a command or uploads a
\* boot configuration for it.
Hosts(l) == {l[i] : i \in 1..Len(l)}
ServerListsPartition ==
    LET admin == fetch_servers_list(TRUE, FALSE)
        nodes == fetch_servers_list(FALSE, TRUE)
    IN  /\ admin \o nodes = fetch_servers_list(TRUE, TRUE)
        /\ Hosts(admin) \cap Hosts(nodes) = {}
        /\ Len(admin) <= 1
NodeGroupOperation ==
    pc \in {"pon_fetch", "pon_off", "pon_check", "dn_fetch", "dn_pxe",
            "dn_arm", "dn_on", "dn_recheck", "dn_final", "dn_threshold"}
C24_AdminUntouchedByNodeOps ==
    /\ []ServerListsPartition
    /\ [][NodeGroupOperation =>
            /\ cmds'[AdminNode] = cmds[AdminNode]
            /\ pxe_conf'[AdminNode] = pxe_conf[AdminNode]]_vars

\* C24 witness: power_off_nodes has powered every node off before the
\* admin deployment and the admin has no command.
C24_Witness ==
    /\ args.admin /\ pc = "da_fetch"
    /\ \A s \in NodeIds : Has(s, "power_off")
    /\ cmds[AdminNode] = << >>

\* C25: power_on is sent to a host only after its one-time network boot
\* was armed with success in this run: a node of arm_failed, whose netboot
\* call raised, has no power_on after that call in its history.
C25_PowerOnOnlyIfArmed ==
    \A s \in arm_failed :
        Has(s, "power_on") =>
            LastIdx(s, "power_on") < LastIdx(s, "set_one_time_network_boot")

\* C26: for the same feed and the same hardware address the lookup of
\* parse_dhcp_logs and the lookup of a wait_dhcp_acks round agree, in
\* whatever letter case the BMM lists the address: a round that starts
\* with the empty set yields exactly the hosts parse_dhcp_logs finds an
\* address for, with that address.
SingleLookups(feed) ==
    { <<servers[i], parse_dhcp_logs(feed, eth0_macaddr(servers[i]))>> :
        i \in {j \in 1..Len(servers) :
                 parse_dhcp_logs(feed, eth0_macaddr(servers[j])) # NoIp} }
C26_LookupsAgree ==
    pc = "wd_poll" =>
        \A feed \in Feeds(NodeIds) : PollRound({}, feed) = SingleLookups(feed)

====
